---- MODULE Spec2Model ----
(***************************************************************************)
(* Birth-registration service (src/main.py): the BirthData validators, the *)
(* births table with its unique key, and the three handlers save_data,     *)
(* search_data and delete_old_entries run by concurrent request workers    *)
(* against one autocommit MySQL connection each.                           *)
(*                                                                         *)
(* Strings are sequences of Unicode code points.  A datetime is a number   *)
(* of clock ticks since 1970-01-01 00:00, TicksPerDay ticks to the day; a  *)
(* DATE is a triple <<year, month, day>>.                                  *)
(***************************************************************************)
EXTENDS Integers, Sequences, FiniteSets, TLC

VARIABLES
    now,          \* the wall clock, in ticks (datetime.now(), CURRENT_TIMESTAMP)
    births,       \* the rows of table births
    nextId,       \* the AUTO_INCREMENT counter of births.id
    pc,           \* per worker: the statement its handler is about to run
    data,         \* per worker: the BirthData of the save_data call in progress
    resp,         \* per worker: the last HTTP response it returned
    cutoff_date,  \* per worker: delete_old_entries' local cutoff_date (a string)
    vnow,         \* per worker: the clock value validate_birth_date read
    snow,         \* per worker: the clock value save_data's own check read
    pnow,         \* per worker: the clock value delete_old_entries read
    admitted,     \* per row id ever inserted: its parents and the clock value save_data's check read
    nreq,         \* number of requests received so far
    vin,          \* the raw record handed to BirthData (validation-only runs)
    vout          \* the set of fields BirthData rejected (validation-only runs)

vars == <<now, births, nextId, pc, data, resp, cutoff_date, vnow, snow, pnow,
          admitted, nreq, vin, vout>>

(***************************************************************************)
(* Bounds of the model.                                                    *)
(***************************************************************************)
TicksPerDay == 2
MaxTicks == 2
MaxReqs == 3

(***************************************************************************)
(* Program constants.                                                      *)
(***************************************************************************)
RetentionDays == 45
MinYear == 1900
CivilIdLen == 8
UnifiedIdLen == 12
IdMinLen == 8
IdMaxLen == 12
NameMinLen == 2
NameMaxLen == 100
ArabicFirst == 1536
ArabicLast == 1791

None == "None"
IdTypeUnified == "muwahhada"
IdTypeCivil == "hawiyat_ahwal"

(***************************************************************************)
(* Characters.                                                             *)
(***************************************************************************)
Range(s) == {s[i] : i \in 1..Len(s)}

Rep(c, n) == [i \in 1..n |-> c]

Hyphen == 45
Newline == 10
AsciiDigits == 48..57
ArabicIndicDigits == 1632..1641
ExtArabicIndicDigits == 1776..1785

\* str.isdigit() and the regex class \d, on the characters the model draws
UnicodeDigits == AsciiDigits \cup ArabicIndicDigits \cup ExtArabicIndicDigits

\* the regex class \s of Python's re on str patterns
Whitespace == (9..13) \cup (28..32) \cup {133, 160, 5760} \cup (8192..8202)
              \cup {8232, 8233, 8239, 8287, 12288}

\* the regex class [؀-ۿ\s]
ArabicNameClass == (ArabicFirst..ArabicLast) \cup Whitespace

isdigit(v) == Len(v) > 0 /\ \A i \in 1..Len(v) : v[i] \in UnicodeDigits

\* Field(pattern=r'^\d{8,12}$')
IdPattern(v) ==
    /\ Len(v) >= IdMinLen
    /\ Len(v) <= IdMaxLen
    /\ \A i \in 1..Len(v) : v[i] \in UnicodeDigits

\* re.match(r'^[؀-ۿ\s]{2,100}$', v): $ also matches before a final newline
ArabicNameRegex(v) ==
    LET body == IF Len(v) > 0 /\ v[Len(v)] = Newline /\ Len(v) > NameMaxLen
                THEN SubSeq(v, 1, Len(v) - 1) ELSE v
    IN  /\ Len(body) >= NameMinLen
        /\ Len(body) <= NameMaxLen
        /\ \A i \in 1..Len(body) : body[i] \in ArabicNameClass

\* Field(min_length=2, max_length=100)
NameLength(v) == Len(v) >= NameMinLen /\ Len(v) <= NameMaxLen

(***************************************************************************)
(* Calendar: datetime.strptime, strftime, timedelta and date comparison.   *)
(***************************************************************************)
IsLeap(y) == (y % 4 = 0 /\ y % 100 # 0) \/ y % 400 = 0

DaysInMonth(y, m) ==
    IF m = 2 THEN (IF IsLeap(y) THEN 29 ELSE 28)
    ELSE IF m \in {4, 6, 9, 11} THEN 30 ELSE 31

\* days since 1970-01-01 of the proleptic Gregorian date y-m-d
DaysFromCivil(y, m, d) ==
    LET yy  == IF m <= 2 THEN y - 1 ELSE y
        era == yy \div 400
        yoe == yy - era * 400
        mp  == IF m > 2 THEN m - 3 ELSE m + 9
        doy == ((153 * mp + 2) \div 5) + d - 1
        doe == yoe * 365 + (yoe \div 4) - (yoe \div 100) + doy
    IN  era * 146097 + doe - 719468

CivilFromDays(z) ==
    LET zz  == z + 719468
        era == zz \div 146097
        doe == zz - era * 146097
        yoe == (doe - (doe \div 1460) + (doe \div 36524) - (doe \div 146096)) \div 365
        doy == doe - (365 * yoe + (yoe \div 4) - (yoe \div 100))
        mp  == (5 * doy + 2) \div 153
        d   == doy - ((153 * mp + 2) \div 5) + 1
        m   == IF mp < 10 THEN mp + 3 ELSE mp - 9
        y   == yoe + era * 400 + (IF m <= 2 THEN 1 ELSE 0)
    IN  <<y, m, d>>

DigitVal(c) ==
    IF c \in AsciiDigits THEN c - 48
    ELSE IF c \in ArabicIndicDigits THEN c - 1632 ELSE c - 1776

Num(s) == IF Len(s) = 2 THEN 10 * DigitVal(s[1]) + DigitVal(s[2])
          ELSE 1000 * DigitVal(s[1]) + 100 * DigitVal(s[2])
               + 10 * DigitVal(s[3]) + DigitVal(s[4])

\* Field(pattern=r"^\d{4}-\d{2}-\d{2}$")
DatePattern(v) ==
    /\ Len(v) = 10
    /\ v[5] = Hyphen /\ v[8] = Hyphen
    /\ \A i \in {1, 2, 3, 4, 6, 7, 9, 10} : v[i] \in UnicodeDigits

\* the <<y, m, d>> that "%Y-%m-%d" reads off a string matching DatePattern
DateFields(v) == <<Num(SubSeq(v, 1, 4)), Num(SubSeq(v, 6, 7)), Num(SubSeq(v, 9, 10))>>

\* whether datetime.strptime(v, "%Y-%m-%d") returns instead of raising ValueError
strptime_ok(v) ==
    /\ DatePattern(v)
    /\ LET f == DateFields(v)
       IN  /\ f[1] >= 1
           /\ f[2] \in 1..12
           /\ f[3] >= 1 /\ f[3] <= DaysInMonth(f[1], f[2])

\* datetime.strptime(v, "%Y-%m-%d"): midnight of that date, in ticks
strptime(v) ==
    LET f == DateFields(v) IN DaysFromCivil(f[1], f[2], f[3]) * TicksPerDay

Pad2(n) == <<48 + (n \div 10), 48 + (n % 10)>>
Pad4(n) == <<48 + (n \div 1000), 48 + ((n \div 100) % 10), 48 + ((n \div 10) % 10), 48 + (n % 10)>>

\* t.strftime("%Y-%m-%d") of the datetime t
strftime(t) ==
    LET c == CivilFromDays(t \div TicksPerDay)
    IN  Pad4(c[1]) \o <<Hyphen>> \o Pad2(c[2]) \o <<Hyphen>> \o Pad2(c[3])

\* timedelta(days=n)
timedelta(n) == n * TicksPerDay

\* the difference rounded up to whole days instead of timedelta.days' floor
DeltaDays_RoundedUp(a, b) == (a - b + TicksPerDay - 1) \div TicksPerDay

\* (a - b).days for datetimes a, b: the floor of the difference in days
DeltaDays(a, b) == (a - b) \div TicksPerDay

\* MySQL's conversion of a 'YYYY-MM-DD' string to a DATE value
ToDate(v) == DateFields(v)

\* MySQL's DATE comparison a < b
DateLess(a, b) ==
    \/ a[1] < b[1]
    \/ a[1] = b[1] /\ a[2] < b[2]
    \/ a[1] = b[1] /\ a[2] = b[2] /\ a[3] < b[3]

(***************************************************************************)
(* BirthData: the declared fields, in declaration order, and their         *)
(* validators.  A validator sees in `values` only the fields declared      *)
(* before its own that have already validated.                             *)
(***************************************************************************)
FieldOrder == <<"father_id", "father_id_type", "father_full_name", "mother_id",
                "mother_id_type", "mother_name", "hospital_name", "birth_date">>

Fields == Range(FieldOrder)

Pos(f) == CHOOSE i \in 1..Len(FieldOrder) : FieldOrder[i] = f

valid_types == {IdTypeUnified, IdTypeCivil}

validate_id_type(v) == v \in valid_types

\* values.get(key) as seen by the validator of `field`
ValuesGet(d, field, key) ==
    IF Pos(key) < Pos(field) /\ validate_id_type(d[key]) THEN d[key] ELSE None

validate_father_id(v, d) ==
    /\ isdigit(v)
    /\ ~(ValuesGet(d, "father_id", "father_id_type") = IdTypeUnified /\ Len(v) # UnifiedIdLen)
    /\ ~(ValuesGet(d, "father_id", "father_id_type") = IdTypeCivil /\ Len(v) # CivilIdLen)

validate_mother_id(v, d) ==
    /\ isdigit(v)
    /\ ~(ValuesGet(d, "mother_id", "mother_id_type") = IdTypeUnified /\ Len(v) # UnifiedIdLen)
    /\ ~(ValuesGet(d, "mother_id", "mother_id_type") = IdTypeCivil /\ Len(v) # CivilIdLen)

validate_arabic_name(v) == ArabicNameRegex(v)

\* validate_birth_date's staleness test: (today - date).days > 45
BirthDateTooOld(v, today) == DeltaDays(today, strptime(v)) > RetentionDays

validate_birth_date(v, today) ==
    /\ strptime_ok(v)
    /\ ~(strptime(v) > today)
    /\ ~(DateFields(v)[1] < MinYear)
    /\ ~BirthDateTooOld(v, today)

\* whether field f of the raw record d passes its Field constraints and validator
FieldOk(d, f, today) ==
    CASE f = "father_id"        -> IdPattern(d.father_id) /\ validate_father_id(d.father_id, d)
      [] f = "mother_id"        -> IdPattern(d.mother_id) /\ validate_mother_id(d.mother_id, d)
      [] f = "father_id_type"   -> validate_id_type(d.father_id_type)
      [] f = "mother_id_type"   -> validate_id_type(d.mother_id_type)
      [] f = "father_full_name" -> NameLength(d.father_full_name) /\ validate_arabic_name(d.father_full_name)
      [] f = "mother_name"      -> NameLength(d.mother_name) /\ validate_arabic_name(d.mother_name)
      [] f = "hospital_name"    -> NameLength(d.hospital_name) /\ validate_arabic_name(d.hospital_name)
      [] f = "birth_date"       -> DatePattern(d.birth_date) /\ validate_birth_date(d.birth_date, today)

\* BirthData(**d): the set of fields reported in the validation error (empty: accepted)
BirthData(d, today) == {f \in Fields : ~FieldOk(d, f, today)}

(***************************************************************************)
(* The births table (init_db) and its statements.                          *)
(***************************************************************************)
\* the VALUES list with hospital_name bound to the wrong parameter
RowOf_WrongColumn(d, id, ts) ==
    [id |-> id,
     father_id |-> d.father_id, father_id_type |-> d.father_id_type,
     father_full_name |-> d.father_full_name,
     mother_id |-> d.mother_id, mother_id_type |-> d.mother_id_type,
     mother_name |-> d.mother_name, hospital_name |-> d.mother_name,
     birth_date |-> ToDate(d.birth_date), created_at |-> ts]

\* the row INSERT builds from the validated record d; id and created_at are the server's
RowOf(d, id, ts) ==
    [id |-> id,
     father_id |-> d.father_id, father_id_type |-> d.father_id_type,
     father_full_name |-> d.father_full_name,
     mother_id |-> d.mother_id, mother_id_type |-> d.mother_id_type,
     mother_name |-> d.mother_name, hospital_name |-> d.hospital_name,
     birth_date |-> ToDate(d.birth_date), created_at |-> ts]

\* a table created without the unique key
unique_parents_missing(rows, row) == FALSE

\* a unique key that matches the two columns crosswise
unique_parents_crossed(rows, row) ==
    \E r \in rows : r.father_id = row.mother_id /\ r.mother_id = row.father_id

\* UNIQUE KEY unique_parents (father_id, mother_id): whether inserting row violates it
unique_parents(rows, row) ==
    \E r \in rows : r.father_id = row.father_id /\ r.mother_id = row.mother_id

\* SELECT hospital_name FROM births WHERE father_id = %s AND mother_id = %s
SelectHospital(rows, f, m) ==
    {r \in rows : r.father_id = f /\ r.mother_id = m}

\* a write that replaces the table's content instead of adding to it
InsertInto_Overwrite(rows, row) == {row}

\* INSERT INTO births ... on a table holding rows
InsertInto(rows, row) == rows \cup {row}

\* SELECT ... FROM births WHERE father_id = %s OR mother_id = %s
SelectSearch(rows, id) ==
    {[mother_name |-> r.mother_name, father_full_name |-> r.father_full_name,
      hospital_name |-> r.hospital_name, birth_date |-> r.birth_date,
      father_id_type |-> r.father_id_type, mother_id_type |-> r.mother_id_type] :
        r \in {x \in rows : x.father_id = id \/ x.mother_id = id}}

\* the rows DELETE FROM births WHERE birth_date < %s removes
DeleteWhere(rows, cutoff) == {r \in rows : DateLess(r.birth_date, ToDate(cutoff))}

\* the cutoff of a 46-day retention
CutoffDate_46(today) == strftime(today - timedelta(RetentionDays + 1))

\* cutoff_date = (datetime.now() - timedelta(days=45)).strftime("%Y-%m-%d")
CutoffDate(today) == strftime(today - timedelta(RetentionDays))

\* save_data's own check: (datetime.now() - birth_date).days > 45
TooOld(d, today) == DeltaDays(today, strptime(d.birth_date)) > RetentionDays

(***************************************************************************)
(* HTTP responses: status, message template, the values interpolated into  *)
(* the message, the rejected fields (422) and the search results.          *)
(***************************************************************************)
Response(status, msg) ==
    [status |-> status, msg |-> msg, args |-> <<>>, errors |-> {}, results |-> {}]

NoResponse == Response(0, "")
Saved == Response(200, "saved")
Purged == Response(200, "purged")
StaleRejected == Response(400, "older_than_45_days")
AlreadyEntered == Response(400, "already_entered")
NotFound == Response(404, "not_found")
DbFailure == Response(500, "db_error")
DuplicateEntry == Response(500, "duplicate_entry_for_key_unique_parents")
Unprocessable(errs) == [Response(422, "validation_error") EXCEPT !.errors = errs]
Results(rs) == [Response(200, "results") EXCEPT !.results = rs]

(***************************************************************************)
(* Inputs the requests are drawn from.                                     *)
(***************************************************************************)
Workers == {"w1", "w2"}

StartDate == <<2024, 3, 1>>
StartDay == DaysFromCivil(StartDate[1], StartDate[2], StartDate[3])
\* the last tick of the start day
StartNow == StartDay * TicksPerDay + (TicksPerDay - 1)

IdA == Rep(49, UnifiedIdLen)
IdB == Rep(50, UnifiedIdLen)
ParentIds == {IdA, IdB}
ParentPairs == {<<IdA, IdB>>, <<IdB, IdA>>}
Name1 == <<1575, 1576, 32, 1580>>
Hospital1 == <<1605, 1587, 1578>>
Hospital2 == <<1605, 1585, 1603>>

DateAt(offset) == strftime((StartDay + offset) * TicksPerDay)

\* hospital and birth date (in days from the start day) of the records submitted:
\* 45 days before the start day (46 days old once the clock passes midnight) and the
\* day after it (in the future until the clock passes midnight)
Births == {<<Hospital1, 0 - RetentionDays>>, <<Hospital2, 1>>}

Record(f, ft, m, mt, h, bd) ==
    [father_id |-> f, father_id_type |-> ft, father_full_name |-> Name1,
     mother_id |-> m, mother_id_type |-> mt, mother_name |-> Name1,
     hospital_name |-> h, birth_date |-> bd]

NoData == Record(<<>>, None, <<>>, None, <<>>, <<>>)

Submissions ==
    {Record(pp[1], IdTypeUnified, pp[2], IdTypeUnified, b[1], DateAt(b[2])) :
        pp \in ParentPairs, b \in Births}
    \cup {Record(IdA, "passport", IdB, IdTypeUnified, Hospital1, DateAt(0))}

(***************************************************************************)
(* The service.                                                            *)
(***************************************************************************)
Init ==
    /\ now = StartNow
    /\ births = {}
    /\ nextId = 1
    /\ pc = [p \in Workers |-> "idle"]
    /\ data = [p \in Workers |-> NoData]
    /\ resp = [p \in Workers |-> NoResponse]
    /\ cutoff_date = [p \in Workers |-> <<>>]
    /\ vnow = [p \in Workers |-> 0]
    /\ snow = [p \in Workers |-> 0]
    /\ pnow = [p \in Workers |-> 0]
    /\ admitted = <<>>
    /\ nreq = 0
    /\ vin = NoData
    /\ vout = {}

\* a worker takes a new request
Accept(p) ==
    /\ pc[p] = "idle"
    /\ nreq < MaxReqs
    /\ nreq' = nreq + 1
    /\ resp' = [resp EXCEPT ![p] = NoResponse]

\* a handler returns response r: its locals go out of scope
Return(p, r) ==
    /\ resp' = [resp EXCEPT ![p] = r]
    /\ pc' = [pc EXCEPT ![p] = "idle"]
    /\ data' = [data EXCEPT ![p] = NoData]
    /\ cutoff_date' = [cutoff_date EXCEPT ![p] = <<>>]
    /\ vnow' = [vnow EXCEPT ![p] = 0]
    /\ snow' = [snow EXCEPT ![p] = 0]
    /\ pnow' = [pnow EXCEPT ![p] = 0]

\* the clock advances
Tick ==
    /\ now < StartNow + MaxTicks
    /\ now' = now + 1
    /\ UNCHANGED <<births, nextId, pc, data, resp, cutoff_date, vnow, snow, pnow,
                   admitted, nreq, vin, vout>>

\* POST /save-data/ arrives with body d
SaveReceive(p, d) ==
    /\ Accept(p)
    /\ data' = [data EXCEPT ![p] = d]
    /\ pc' = [pc EXCEPT ![p] = "validate"]
    /\ UNCHANGED <<now, births, nextId, cutoff_date, vnow, snow, pnow, admitted,
                   vin, vout>>

\* BirthData rejects the body (422); the handler never runs
SaveInvalid(p) ==
    /\ pc[p] = "validate"
    /\ BirthData(data[p], now) # {}
    /\ Return(p, Unprocessable(BirthData(data[p], now)))
    /\ UNCHANGED <<now, births, nextId, admitted, nreq, vin, vout>>

\* BirthData accepts the body; save_data starts
SaveValid(p) ==
    /\ pc[p] = "validate"
    /\ BirthData(data[p], now) = {}
    /\ vnow' = [vnow EXCEPT ![p] = now]
    /\ pc' = [pc EXCEPT ![p] = "check"]
    /\ UNCHANGED <<now, births, nextId, data, resp, cutoff_date, snow, pnow,
                   admitted, nreq, vin, vout>>

\* save_data: the record is older than 45 days at the handler's own clock read
SaveTooOld(p) ==
    /\ pc[p] = "check"
    /\ TooOld(data[p], now)
    /\ Return(p, StaleRejected)
    /\ UNCHANGED <<now, births, nextId, admitted, nreq, vin, vout>>

\* save_data: the age check passes; the transaction opens
SaveFresh(p) ==
    /\ pc[p] = "check"
    /\ ~TooOld(data[p], now)
    /\ snow' = [snow EXCEPT ![p] = now]
    /\ pc' = [pc EXCEPT ![p] = "select"]
    /\ UNCHANGED <<now, births, nextId, data, resp, cutoff_date, vnow, pnow,
                   admitted, nreq, vin, vout>>

\* save_data: the SELECT finds a row for the parents; HTTPException(400)
SaveDuplicate(p) ==
    /\ pc[p] = "select"
    /\ SelectHospital(births, data[p].father_id, data[p].mother_id) # {}
    /\ Return(p, AlreadyEntered)
    /\ UNCHANGED <<now, births, nextId, admitted, nreq, vin, vout>>

\* save_data: the SELECT finds nothing
SaveNoDuplicate(p) ==
    /\ pc[p] = "select"
    /\ SelectHospital(births, data[p].father_id, data[p].mother_id) = {}
    /\ pc' = [pc EXCEPT ![p] = "insert"]
    /\ UNCHANGED <<now, births, nextId, data, resp, cutoff_date, vnow, snow, pnow,
                   admitted, nreq, vin, vout>>

\* save_data: the INSERT succeeds and autocommits
SaveInsert(p) ==
    /\ pc[p] = "insert"
    /\ ~unique_parents(births, RowOf(data[p], nextId, now))
    /\ births' = InsertInto(births, RowOf(data[p], nextId, now))
    /\ admitted' = (nextId :> [father_id |-> data[p].father_id, mother_id |-> data[p].mother_id,
                              checked |-> snow[p]]) @@ admitted
    /\ nextId' = nextId + 1
    /\ Return(p, Saved)
    /\ UNCHANGED <<now, nreq, vin, vout>>

\* save_data: the INSERT violates unique_parents; the Error becomes a 500
SaveInsertConflict(p) ==
    /\ pc[p] = "insert"
    /\ unique_parents(births, RowOf(data[p], nextId, now))
    /\ Return(p, DuplicateEntry)
    /\ UNCHANGED <<now, births, nextId, admitted, nreq, vin, vout>>

\* the connection or the statement about to run fails: rollback, 500
DbError(p) ==
    /\ pc[p] \in {"select", "insert", "delete"}
    /\ Return(p, DbFailure)
    /\ UNCHANGED <<now, births, nextId, admitted, nreq, vin, vout>>

\* GET /search/{search_id}: the connection or the SELECT fails (500), nothing is
\* found (404), or the matching rows are returned
search_data(p, id) ==
    /\ pc[p] = "idle"
    /\ nreq < MaxReqs
    /\ nreq' = nreq + 1
    /\ \E failed \in BOOLEAN :
           resp' = [resp EXCEPT ![p] =
                       IF failed THEN DbFailure
                       ELSE IF SelectSearch(births, id) = {} THEN NotFound
                       ELSE Results(SelectSearch(births, id))]
    /\ UNCHANGED <<now, births, nextId, pc, data, cutoff_date, vnow, snow, pnow,
                   admitted, vin, vout>>

\* DELETE /delete-old-entries/: the cutoff is computed
PurgeStart(p) ==
    /\ Accept(p)
    /\ cutoff_date' = [cutoff_date EXCEPT ![p] = CutoffDate(now)]
    /\ pnow' = [pnow EXCEPT ![p] = now]
    /\ pc' = [pc EXCEPT ![p] = "delete"]
    /\ UNCHANGED <<now, births, nextId, data, vnow, snow, admitted, vin, vout>>

\* delete_old_entries: the DELETE runs and autocommits
PurgeDelete(p) ==
    /\ pc[p] = "delete"
    /\ births' = births \ DeleteWhere(births, cutoff_date[p])
    /\ Return(p, Purged)
    /\ UNCHANGED <<now, nextId, admitted, nreq, vin, vout>>

\* the steps of save_data
save_data(p) ==
    \/ \E d \in Submissions : SaveReceive(p, d)
    \/ SaveInvalid(p)
    \/ SaveValid(p)
    \/ SaveTooOld(p)
    \/ SaveFresh(p)
    \/ SaveDuplicate(p)
    \/ SaveNoDuplicate(p)
    \/ SaveInsert(p)
    \/ SaveInsertConflict(p)

\* the steps of delete_old_entries
delete_old_entries(p) == PurgeStart(p) \/ PurgeDelete(p)

Next ==
    \/ Tick
    \/ \E p \in Workers : save_data(p)
    \/ \E p \in Workers : DbError(p)
    \/ \E p \in Workers : \E id \in ParentIds : search_data(p, id)
    \/ \E p \in Workers : delete_old_entries(p)

Spec == Init /\ [][Next]_vars

\* save_data alone: concurrent submissions, no purge and no search
NextSave ==
    \/ Tick
    \/ \E p \in Workers : save_data(p)
    \/ \E p \in Workers : DbError(p)

SpecSave == Init /\ [][NextSave]_vars

(***************************************************************************)
(* BirthData on its own: one raw record is drawn and validated.            *)
(***************************************************************************)
Valid0 == Record(IdA, IdTypeUnified, IdB, IdTypeUnified, Hospital1, DateAt(0))

Digits(n) == Rep(49, n)
IdSamples == {Digits(n) : n \in (IdMinLen - 1)..(IdMaxLen + 1)} \cup {Rep(65, CivilIdLen)}
TypeSamples == {IdTypeUnified, IdTypeCivil, "passport"}

\* n times the letter alef
Alefs(n) == Rep(1575, n)

\* names of 1, 2, 100 and 101 letters, 100 letters and a newline, letters with a space,
\* a tab, an Arabic-Indic digit, an Arabic comma; "Ahmad", "Ahmad123"; letters with an
\* ASCII digit, with a full stop
NameSamples ==
    {Alefs(1), Alefs(NameMinLen), Alefs(NameMaxLen), Alefs(NameMaxLen + 1),
     Alefs(NameMaxLen) \o <<Newline>>,
     <<1575, 32, 1576>>, <<1575, 9, 1576>>,
     <<1575, 1576, 1633>>, <<1575, 1548, 1576>>,
     <<65, 104, 109, 97, 100>>, <<65, 104, 109, 97, 100, 49, 50, 51>>,
     <<1575, 1576, 49>>, <<1575, 46, 1576>>}

\* dates around the window; 1899-12-31; 2024-02-30; 2024/02/20
DateSamples ==
    {DateAt(0), DateAt(1), DateAt(0 - RetentionDays), DateAt(0 - RetentionDays - 1),
     <<49, 56, 57, 57, 45, 49, 50, 45, 51, 49>>,
     <<50, 48, 50, 52, 45, 48, 50, 45, 51, 48>>,
     <<50, 48, 50, 52, 47, 48, 50, 47, 50, 48>>}

ValidateInputs ==
    {[Valid0 EXCEPT !.father_id = i, !.father_id_type = t] : i \in IdSamples, t \in TypeSamples}
    \cup {[Valid0 EXCEPT !.mother_id = i, !.mother_id_type = t] : i \in IdSamples, t \in TypeSamples}
    \cup {[Valid0 EXCEPT !.father_full_name = n] : n \in NameSamples}
    \cup {[Valid0 EXCEPT !.mother_name = n] : n \in NameSamples}
    \cup {[Valid0 EXCEPT !.hospital_name = n] : n \in NameSamples}
    \cup {[Valid0 EXCEPT !.birth_date = b] : b \in DateSamples}

Pending == {"pending"}

InitValidate ==
    /\ now = StartNow
    /\ births = {}
    /\ nextId = 1
    /\ pc = [p \in Workers |-> "idle"]
    /\ data = [p \in Workers |-> NoData]
    /\ resp = [p \in Workers |-> NoResponse]
    /\ cutoff_date = [p \in Workers |-> <<>>]
    /\ vnow = [p \in Workers |-> 0]
    /\ snow = [p \in Workers |-> 0]
    /\ pnow = [p \in Workers |-> 0]
    /\ admitted = <<>>
    /\ nreq = 0
    /\ vin \in ValidateInputs
    /\ vout = Pending

\* BirthData(**vin)
Validate ==
    /\ vout = Pending
    /\ vout' = BirthData(vin, now)
    /\ UNCHANGED <<now, births, nextId, pc, data, resp, cutoff_date, vnow, snow, pnow,
                   admitted, nreq, vin>>

SpecValidate == InitValidate /\ [][Validate]_vars

(***************************************************************************)
(* Vocabulary of the properties.                                           *)
(***************************************************************************)
\* the calendar day (days since 1970-01-01) a clock value falls on
DayOf(t) == t \div TicksPerDay

\* the calendar day a 'YYYY-MM-DD' string names
DayNamed(v) == DaysFromCivil(DateFields(v)[1], DateFields(v)[2], DateFields(v)[3])

\* a DATE value written as 'YYYY-MM-DD'
DateText(dt) == Pad4(dt[1]) \o <<Hyphen>> \o Pad2(dt[2]) \o <<Hyphen>> \o Pad2(dt[3])

\* the birth date v lies between 45 calendar days before the day of t and the day of t
InWindow(v, t) ==
    /\ DayNamed(v) <= DayOf(t)
    /\ DayOf(t) - DayNamed(v) <= RetentionDays

SameParents(r1, r2) == r1.father_id = r2.father_id /\ r1.mother_id = r2.mother_id

\* the successful save_data calls so far for father f and mother m
SavedFor(f, m) ==
    {i \in DOMAIN admitted : admitted[i].father_id = f /\ admitted[i].mother_id = m}

\* the ids of the rows a purge has deleted
Purged_ids == {i \in DOMAIN admitted : \A r \in births : r.id # i}

\* letters of the Arabic script in U+0600..U+06FF (Unicode general category L)
ArabicLetters ==
    (1568..1610) \cup {1646, 1647} \cup (1649..1747) \cup {1749, 1765, 1766, 1774, 1775}
    \cup (1786..1788) \cup {1791}

NameFields == {"father_full_name", "mother_name", "hospital_name"}

\* row r carries the fields submitted in d
Carries(r, d) ==
    /\ r.father_id = d.father_id /\ r.father_id_type = d.father_id_type
    /\ r.father_full_name = d.father_full_name
    /\ r.mother_id = d.mother_id /\ r.mother_id_type = d.mother_id_type
    /\ r.mother_name = d.mother_name /\ r.hospital_name = d.hospital_name
    /\ DateText(r.birth_date) = d.birth_date

(***************************************************************************)
(* C1: when save_data calls for the same father_id and mother_id run       *)
(* concurrently, their SELECT and INSERT steps interleaved in any order,   *)
(* at most one of them ends with a success response and a stored row, and  *)
(* the table never holds two rows with that same (father_id, mother_id).   *)
(***************************************************************************)
C1_AtMostOneSaved ==
    /\ \A f \in ParentIds, m \in ParentIds : Cardinality(SavedFor(f, m)) <= 1
    /\ \A r1 \in births, r2 \in births : SameParents(r1, r2) => r1 = r2
    /\ Cardinality(births) = Cardinality(DOMAIN admitted)

\* two calls raced past the SELECT: one was saved, the other hit the unique key
C1_Witness ==
    \E p \in Workers, q \in Workers :
        /\ resp[p] = Saved
        /\ resp[q] = DuplicateEntry
        /\ Cardinality(births) = 1

(***************************************************************************)
(* C2, as amended: in every reachable state the ordered pair               *)
(* (father_id, mother_id) is unique across the stored rows; two rows may   *)
(* hold the same two ids with father and mother exchanged.                 *)
(***************************************************************************)
C2_OrderedPairUnique ==
    \A r1 \in births, r2 \in births :
        (r1.father_id = r2.father_id /\ r1.mother_id = r2.mother_id) => r1.id = r2.id

\* C2 as stated: the unordered pair {father_id, mother_id} is unique across the rows
C2_UnorderedPairUnique ==
    \A r1 \in births, r2 \in births :
        {r1.father_id, r1.mother_id} = {r2.father_id, r2.mother_id} => r1.id = r2.id

\* two rows are stored, one the other's parents exchanged
C2_Witness ==
    \E r1 \in births, r2 \in births :
        /\ r1.id # r2.id
        /\ r1.father_id = r2.mother_id /\ r1.mother_id = r2.father_id

(***************************************************************************)
(* C3: a submission for parents already stored is rejected with an error   *)
(* that reports the hospital_name of the stored row.                       *)
(***************************************************************************)
C3_DuplicateReportsHospital ==
    [][\A p \in Workers :
          (pc[p] = "select" /\ pc'[p] = "idle" /\ resp'[p].status = 400) =>
              \E r \in births :
                  /\ r.father_id = data[p].father_id /\ r.mother_id = data[p].mother_id
                  /\ r.hospital_name \in Range(resp'[p].args)]_vars

(***************************************************************************)
(* C4: for each parent, validation rejects an id whose length does not     *)
(* match the id type declared in the same record: 12 digits for the        *)
(* unified card, 8 for the civil-status id.                                *)
(***************************************************************************)
C4_IdLengthMatchesType ==
    vout # Pending =>
        /\ (vin.father_id_type = IdTypeUnified /\ Len(vin.father_id) # UnifiedIdLen)
               => "father_id" \in vout
        /\ (vin.father_id_type = IdTypeCivil /\ Len(vin.father_id) # CivilIdLen)
               => "father_id" \in vout
        /\ (vin.mother_id_type = IdTypeUnified /\ Len(vin.mother_id) # UnifiedIdLen)
               => "mother_id" \in vout
        /\ (vin.mother_id_type = IdTypeCivil /\ Len(vin.mother_id) # CivilIdLen)
               => "mother_id" \in vout

(***************************************************************************)
(* C5: every decision on birth_date, BirthData's and save_data's own,      *)
(* accepts the date exactly when it lies between 45 calendar days before   *)
(* the day of the clock value the decision read and that day, whatever the *)
(* time of day of the clock value.                                         *)
(***************************************************************************)
C5_AcceptedIffInWindow ==
    [][\A p \in Workers :
          /\ (pc[p] = "validate" /\ pc'[p] = "check") => InWindow(data[p].birth_date, now)
          /\ (pc[p] = "validate" /\ pc'[p] = "idle") =>
                 ("birth_date" \in resp'[p].errors <=> ~InWindow(data[p].birth_date, now))
          /\ (pc[p] = "check" /\ pc'[p] = "select") => InWindow(data[p].birth_date, now)
          /\ (pc[p] = "check" /\ pc'[p] = "idle") => ~InWindow(data[p].birth_date, now)]_vars

\* a record exactly 45 days old passed both checks at a clock value that is not midnight
C5_Witness ==
    \E p \in Workers :
        /\ pc[p] = "select"
        /\ DayOf(snow[p]) - DayNamed(data[p].birth_date) = RetentionDays
        /\ snow[p] % TicksPerDay # 0

(***************************************************************************)
(* C6: the purge run at time now deletes exactly the rows whose created_at *)
(* is older than now minus 45 days, whatever their birth_date.             *)
(***************************************************************************)
C6_PurgeByCreatedAt ==
    [][\A p \in Workers :
          (pc[p] = "delete" /\ resp'[p] = Purged) =>
              births \ births' =
                  {r \in births : r.created_at < pnow[p] - timedelta(RetentionDays)}]_vars

(***************************************************************************)
(* C7: validation rejects a record when one of father_full_name,           *)
(* mother_name, hospital_name holds a character that is neither a letter   *)
(* of the Arabic script nor a space, and accepts a name of 2 to 100 such   *)
(* letters and spaces.                                                     *)
(***************************************************************************)
C7_NamesAreLettersAndSpaces ==
    vout # Pending =>
        \A f \in NameFields :
            f \notin vout <=>
                /\ Len(vin[f]) >= NameMinLen
                /\ Len(vin[f]) <= NameMaxLen
                /\ Range(vin[f]) \subseteq ArabicLetters \cup {32}

C9_RowsOnlyLeaveByPurge ==
    [][/\ \A r \in births :
              r \notin births' => \E p \in Workers : pc[p] = "delete" /\ resp'[p] = Purged
       /\ \A r \in births, r2 \in births' : r.id = r2.id => r = r2]_vars

\* a duplicate was turned down, and later a purge deleted the stored row
C9_Witness ==
    \E p \in Workers, q \in Workers :
        /\ resp[p] = AlreadyEntered
        /\ resp[q] = Purged
        /\ Purged_ids # {}

(***************************************************************************)
(* C10: delete_old_entries, reading the clock at now, deletes a row        *)
(* exactly when validate_birth_date would reject its birth_date as older   *)
(* than 45 days at the same now; so a row whose save_data check read the   *)
(* clock on the calendar day of now is not deleted, and no row left has a  *)
(* birth_date more than 45 days before now.                                *)
(***************************************************************************)
C10_PurgeAgreesWithStaleness ==
    [][\A p \in Workers :
          (pc[p] = "delete" /\ resp'[p] = Purged) =>
              /\ births \ births' =
                     {r \in births : BirthDateTooOld(DateText(r.birth_date), pnow[p])}
              /\ \A r \in births :
                     DayOf(admitted[r.id].checked) = DayOf(pnow[p]) => r \in births'
              /\ \A r \in births' :
                     DayOf(pnow[p]) - DayNamed(DateText(r.birth_date)) <= RetentionDays]_vars

\* a purge deleted a row and kept another
C10_Witness ==
    \E p \in Workers :
        /\ resp[p] = Purged
        /\ Purged_ids # {}
        /\ births # {}

====
